---- MODULE Spec2Model ----
(***************************************************************************)
(* State-machine model of the crawler in                                   *)
(* src/assignments/Project/internal_links.py: normalize_url,               *)
(* extract_links_from_soup, get_youtube_transcription and the crawl loop   *)
(* of scrape_and_store_locally.                                            *)
(*                                                                         *)
(* A Python string is a sequence of tokens.  A token is either one of the  *)
(* delimiter characters the code and urllib.parse look for ("/", ":", "?", *)
(* "#", ";", "[", "]") or a word: a run of other characters that is never  *)
(* split ("https", "x.com", "80", "v=abc").  Every string operation of the *)
(* code (find, split, rstrip, lower, slicing, comparison with a literal)   *)
(* is done on the token sequence exactly as Python does it on characters.  *)
(* The empty string is <<>>.  None and a raised ValueError are one-token   *)
(* sequences whose token is no token of the alphabet.                      *)
(***************************************************************************)
EXTENDS Integers, Sequences, FiniteSets, TLC

None == <<"None">>
ValueError == <<"ValueError">>
RequestException == <<"RequestException">>

\* Python truthiness of an optional string: None and "" are falsy.
Falsy(s) == s = None \/ s = <<>>

----------------------------------------------------------------------------
(* String primitives.                                                      *)

MinOf(S) == CHOOSE i \in S : \A j \in S : i <= j
MaxOf(S) == CHOOSE i \in S : \A j \in S : i >= j

\* str.find(c, start): the least index >= start that holds c, 0 when none
\* (indices are 1-based here, so 0 plays the part of Python's -1).
Find(s, c, start) ==
  LET hits == {i \in start..Len(s) : s[i] = c}
  IN  IF hits = {} THEN 0 ELSE MinOf(hits)

\* str.rfind(c)
RFind(s, c) ==
  LET hits == {i \in 1..Len(s) : s[i] = c}
  IN  IF hits = {} THEN 0 ELSE MaxOf(hits)

Contains(s, c) == \E i \in 1..Len(s) : s[i] = c

\* s[:n] and s[n:] of Python, n counted in tokens.
Take(s, n) == SubSeq(s, 1, IF n > Len(s) THEN Len(s) ELSE n)
Drop(s, n) == SubSeq(s, n + 1, Len(s))

\* str.rstrip(c) and str.lstrip(c)
RStrip(s, c) ==
  LET keep == {i \in 1..Len(s) : s[i] # c}
  IN  IF keep = {} THEN <<>> ELSE SubSeq(s, 1, MaxOf(keep))
LStrip(s, c) ==
  LET keep == {i \in 1..Len(s) : s[i] # c}
  IN  IF keep = {} THEN <<>> ELSE SubSeq(s, MinOf(keep), Len(s))

StartsWith(s, p) == Len(s) >= Len(p) /\ SubSeq(s, 1, Len(p)) = p

\* The words of the alphabet and what Python's character tests say of them.
Delimiters == {"/", ":", "?", "#", ";", "[", "]"}
UpperWords == {"X.com", "HTTP"}
LowerOfWord(w) ==
  CASE w = "X.com" -> "x.com"
    [] w = "HTTP" -> "http"
    [] OTHER -> w
\* str.lower()
Lower(s) == [i \in DOMAIN s |-> LowerOfWord(s[i])]
\* words whose first character is an ASCII letter (url[0].isalpha())
DigitWords == {"80", "443", "8080"}
IsAlphaStart(w) == w \notin Delimiters /\ w \notin DigitWords
\* words made only of scheme_chars (letters, digits, "+", "-", ".")
IsSchemeChars(w) == w \notin Delimiters /\ w \notin {"v=abc", "@"}

----------------------------------------------------------------------------------------------------------------------------------------
(* urllib.parse, as imported on line 3 (CPython 3.11).  Every step takes   *)
(* what the steps before it computed as parameters.                        *)

uses_netloc == {<<>>, <<"http">>, <<"https">>, <<"ftp">>}
uses_relative == {<<>>, <<"http">>, <<"https">>, <<"ftp">>}
uses_params == {<<>>, <<"http">>, <<"https">>, <<"ftp">>}

\* s.split(c, 1): what precedes the first c (all of s when there is none)
\* and what follows it (nothing when there is none).
Before(s, c) == IF Contains(s, c) THEN Take(s, Find(s, c, 1) - 1) ELSE s
After(s, c) == IF Contains(s, c) THEN Drop(s, Find(s, c, 1)) ELSE <<>>

\* _splitnetloc(url, 2): the netloc runs from after "//" to the first of "/?#".
NetlocEnd(url) ==
  IF \E i \in 3..Len(url) : url[i] \in {"/", "?", "#"}
  THEN MinOf({i \in 3..Len(url) : url[i] \in {"/", "?", "#"}})
  ELSE Len(url) + 1
splitnetloc(url) ==
  [netloc |-> SubSeq(url, 3, NetlocEnd(url) - 1),
   rest |-> SubSeq(url, NetlocEnd(url), Len(url))]

\* urlsplit: url[:i] is a scheme when i > 0, url[0] is a letter and url[:i]
\* holds scheme characters only (i the place of the first ":").
HasScheme(url, i) ==
  /\ i > 1
  /\ IsAlphaStart(url[1])
  /\ \A j \in 1..(i - 1) : IsSchemeChars(url[j])

\* urlsplit raises ValueError("Invalid IPv6 URL") for such a netloc.
InvalidIPv6(netloc) ==
  \/ (Contains(netloc, "[") /\ ~Contains(netloc, "]"))
  \/ (Contains(netloc, "]") /\ ~Contains(netloc, "["))

\* urlsplit, last step: the query is split off; err is set where it raises.
urlsplit_query(scheme, netloc, url, fragment) ==
  [scheme |-> scheme, netloc |-> netloc, path |-> Before(url, "?"),
   query |-> After(url, "?"), fragment |-> fragment, err |-> InvalidIPv6(netloc)]

\* urlsplit: the fragment is split off what follows the netloc.
urlsplit_fragment(scheme, nl) ==
  urlsplit_query(scheme, nl.netloc, Before(nl.rest, "#"), After(nl.rest, "#"))

\* urlsplit: a url that starts with "//" has a netloc.
urlsplit_netloc(scheme, url) ==
  urlsplit_fragment(scheme,
    IF StartsWith(url, <<"/", "/">>) THEN splitnetloc(url)
    ELSE [netloc |-> <<>>, rest |-> url])

\* urlsplit: the scheme is split off and lower-cased.
urlsplit_scheme(url, default_scheme, i) ==
  urlsplit_netloc(IF HasScheme(url, i) THEN Lower(Take(url, i - 1)) ELSE default_scheme,
                  IF HasScheme(url, i) THEN Drop(url, i) ELSE url)

\* urlsplit(url, scheme)
urlsplit(url, default_scheme) == urlsplit_scheme(url, default_scheme, Find(url, ":", 1))

\* _splitparams(url): the params follow the first ";" of the last segment.
ParamsAt(url) ==
  IF Contains(url, "/") THEN Find(url, ";", RFind(url, "/")) ELSE Find(url, ";", 1)
splitparams(url) ==
  IF ParamsAt(url) = 0 THEN [path |-> url, params |-> <<>>]
  ELSE [path |-> Take(url, ParamsAt(url) - 1), params |-> Drop(url, ParamsAt(url))]

\* urlparse, after urlsplit: the params are split off the path.
urlparse_params(s) ==
  [scheme |-> s.scheme, netloc |-> s.netloc,
   path |-> IF s.scheme \in uses_params /\ Contains(s.path, ";")
            THEN splitparams(s.path).path ELSE s.path,
   params |-> IF s.scheme \in uses_params /\ Contains(s.path, ";")
              THEN splitparams(s.path).params ELSE <<>>,
   query |-> s.query, fragment |-> s.fragment, err |-> s.err]

\* urlparse(url, scheme) and urlparse(url)
urlparse2(url, default_scheme) == urlparse_params(urlsplit(url, default_scheme))
urlparse(url) == urlparse2(url, <<>>)

\* urlunsplit((scheme, netloc, url, query, fragment))
urlunsplit(scheme, netloc, url, query, fragment) ==
  (IF scheme # <<>> THEN scheme \o <<":">> ELSE <<>>)
  \o (IF netloc # <<>> \/ (scheme # <<>> /\ scheme \in uses_netloc
                           /\ Take(url, 2) # <<"/", "/">>)
      THEN <<"/", "/">> \o netloc
             \o (IF url # <<>> /\ url[1] # "/" THEN <<"/">> ELSE <<>>)
      ELSE <<>>)
  \o url
  \o (IF query # <<>> THEN <<"?">> \o query ELSE <<>>)
  \o (IF fragment # <<>> THEN <<"#">> \o fragment ELSE <<>>)

\* urlunparse((scheme, netloc, url, params, query, fragment))
urlunparse(p) ==
  urlunsplit(p.scheme, p.netloc,
             IF p.params # <<>> THEN p.path \o <<";">> \o p.params ELSE p.path,
             p.query, p.fragment)

\* urldefrag(url)[0]: a URL with a "#" is parsed and put together again.
urldefrag_parsed(p) ==
  IF p.err THEN ValueError ELSE urlunparse([p EXCEPT !.fragment = <<>>])
urldefrag(url) ==
  IF Contains(url, "#") THEN urldefrag_parsed(urlparse(url)) ELSE url

\* str.split(c): the pieces between the occurrences of c.
RECURSIVE Split(_, _)
Split(s, c) ==
  IF ~Contains(s, c) THEN <<s>> ELSE <<Before(s, c)>> \o Split(After(s, c), c)

\* c.join(parts)
RECURSIVE Join(_, _)
Join(parts, c) ==
  IF parts = <<>> THEN <<>>
  ELSE IF Len(parts) = 1 THEN parts[1]
  ELSE parts[1] \o <<c>> \o Join(Tail(parts), c)

\* filter(None, parts): the non-empty pieces, in order.
RECURSIVE NonEmpty(_)
NonEmpty(parts) ==
  IF parts = <<>> THEN <<>>
  ELSE (IF parts[1] = <<>> THEN <<>> ELSE <<parts[1]>>) \o NonEmpty(Tail(parts))

\* urljoin's loop over the segments: ".." pops, "." is skipped.
RECURSIVE ResolveSegments(_, _)
ResolveSegments(segments, resolved) ==
  IF segments = <<>> THEN resolved
  ELSE ResolveSegments(Tail(segments),
         IF segments[1] = <<"..">>
         THEN (IF resolved = <<>> THEN resolved
               ELSE SubSeq(resolved, 1, Len(resolved) - 1))
         ELSE IF segments[1] = <<".">> THEN resolved
         ELSE Append(resolved, segments[1]))

\* urljoin: base_parts, the base path's segments without a last file name.
DropFileName(parts) ==
  IF parts[Len(parts)] # <<>> THEN SubSeq(parts, 1, Len(parts) - 1) ELSE parts

\* urljoin: segments[1:-1] = filter(None, segments[1:-1])
FilterInner(segments) ==
  IF Len(segments) <= 2 THEN segments
  ELSE <<segments[1]>> \o NonEmpty(SubSeq(segments, 2, Len(segments) - 1))
         \o <<segments[Len(segments)]>>

\* urljoin: the segments to resolve.
JoinSegments(bpath, path) ==
  IF Take(path, 1) = <<"/">> THEN Split(path, "/")
  ELSE FilterInner(DropFileName(Split(bpath, "/")) \o Split(path, "/"))

\* urljoin: resolved_path, with "" appended after a last "." or "..".
ResolvedPath(segments) ==
  IF segments[Len(segments)] \in {<<".">>, <<"..">>}
  THEN Append(ResolveSegments(segments, <<>>), <<>>)
  ELSE ResolveSegments(segments, <<>>)

\* '/'.join(resolved_path) or '/'
OrRoot(path) == IF path = <<>> THEN <<"/">> ELSE path

\* urljoin, once base (b) and url (u) are parsed.
urljoin_parsed(url, b, u) ==
  IF b.err \/ u.err THEN ValueError
  ELSE IF u.scheme # b.scheme \/ u.scheme \notin uses_relative THEN url
  ELSE IF u.scheme \in uses_netloc /\ u.netloc # <<>> THEN urlunparse(u)
  ELSE IF u.path = <<>> /\ u.params = <<>>
  THEN urlunparse([scheme |-> u.scheme,
                   netloc |-> IF u.scheme \in uses_netloc THEN b.netloc ELSE u.netloc,
                   path |-> b.path, params |-> b.params,
                   query |-> IF u.query = <<>> THEN b.query ELSE u.query,
                   fragment |-> u.fragment])
  ELSE urlunparse([scheme |-> u.scheme,
                   netloc |-> IF u.scheme \in uses_netloc THEN b.netloc ELSE u.netloc,
                   path |-> OrRoot(Join(ResolvedPath(JoinSegments(b.path, u.path)), "/")),
                   params |-> u.params, query |-> u.query,
                   fragment |-> u.fragment])

\* urljoin: url is parsed with the base's scheme as its default.
urljoin_base(url, b) == urljoin_parsed(url, b, urlparse2(url, b.scheme))

\* urljoin(base, url); ValueError where one of its two urlparse calls raises.
urljoin(base, url) ==
  IF base = <<>> THEN url
  ELSE IF url = <<>> THEN base
  ELSE urljoin_base(url, urlparse(base))

----------------------------------------------------------------------------
(* normalize_url, lines 101-120.                                           *)

\* lines 110-113: the scheme's default port is dropped from the netloc.
strip_default_port(scheme, netloc) ==
  IF /\ Contains(netloc, ":")
     /\ \/ (scheme = <<"http">> /\ After(netloc, ":") = <<"80">>)
        \/ (scheme = <<"https">> /\ After(netloc, ":") = <<"443">>)
  THEN Before(netloc, ":") ELSE netloc

\* line 116: path.rstrip("/") unless the path is "/"
strip_trailing(path) == IF path # <<"/">> THEN RStrip(path, "/") ELSE path

\* lines 114-116: path = parsed.path or "/", then the trailing slashes go.
normal_path(parsed_path) ==
  strip_trailing(IF parsed_path = <<>> THEN <<"/">> ELSE parsed_path)

\* line 108: scheme = parsed.scheme or "https"
scheme_or_https(scheme) == IF scheme # <<>> THEN scheme ELSE <<"https">>

\* lines 106-120, once the URL is parsed.
normalize_parsed(parsed) ==
  IF parsed.err THEN ValueError
  ELSE IF parsed.scheme # <<>> /\ Lower(parsed.scheme) \notin {<<"http">>, <<"https">>}
  THEN None
  ELSE urlunparse([scheme |-> scheme_or_https(parsed.scheme),
                   netloc |-> strip_default_port(scheme_or_https(parsed.scheme),
                                                 Lower(parsed.netloc)),
                   path |-> normal_path(parsed.path),
                   params |-> <<>>,
                   query |-> parsed.query,
                   fragment |-> <<>>])

\* lines 104-105: the fragment is dropped and the rest parsed.
normalize_nofrag(nofrag) ==
  IF nofrag = ValueError THEN ValueError ELSE normalize_parsed(urlparse(nofrag))
normalize_joined(joined) ==
  IF joined = ValueError THEN ValueError ELSE normalize_nofrag(urldefrag(joined))

\* normalize_url(raw_url, base_for_join): a string, None (line 107), or
\* ValueError when urljoin, urldefrag or urlparse raises.
normalize_url(raw_url, base_for_join) ==
  normalize_joined(IF ~Falsy(base_for_join) THEN urljoin(base_for_join, raw_url)
                   ELSE raw_url)

----------------
(* The transcript enricher, lines 34-95.                                   *)

\* "youtube.com" in host / "youtu.be" in host: the words that contain it.
HasYoutubeCom(host) == \E i \in 1..Len(host) : host[i] \in {"youtube.com", "www.youtube.com"}
HasYoutuBe(host) == \E i \in 1..Len(host) : host[i] \in {"youtu.be"}

\* parse_qs(query)["v"][0], None when the query has no "v" key.
qs_v(query) == IF query = <<"v=abc">> THEN <<"abc">> ELSE None

\* extract_youtube_id, lines 38-48, once the URL is parsed.
youtube_id_of(parsed) ==
  IF HasYoutubeCom(Lower(parsed.netloc)) /\ qs_v(parsed.query) # None
  THEN qs_v(parsed.query)
  ELSE IF HasYoutubeCom(Lower(parsed.netloc))
          /\ StartsWith(parsed.path, <<"/", "embed", "/">>)
  THEN Drop(parsed.path, 3)
  ELSE IF HasYoutubeCom(Lower(parsed.netloc))
          /\ StartsWith(parsed.path, <<"/", "shorts", "/">>)
  THEN Drop(parsed.path, 3)
  ELSE IF HasYoutuBe(Lower(parsed.netloc)) THEN LStrip(parsed.path, "/")
  ELSE None

\* extract_youtube_id(url), lines 34-48.
extract_youtube_id(url) == youtube_id_of(urlparse(url))

\* The caption payload is a sequence of lines.  Lines 90-93 keep a line when
\* it is not blank, does not start with a digit and holds no "-->".
BlankLines == {""}
DigitLines == {"1", "00:01 --> 00:02"}
ArrowLines == {"00:01 --> 00:02"}
KeepLine(line) == line \notin BlankLines /\ line \notin DigitLines /\ line \notin ArrowLines
RECURSIVE CaptionText(_)
CaptionText(lines) ==
  IF lines = <<>> THEN <<>>
  ELSE (IF KeepLine(lines[1]) THEN <<lines[1]>> ELSE <<>>) \o CaptionText(Tail(lines))

\* What yt-dlp and the caption download answer for one video link:
\*   info   - whether ydl.extract_info returns (FALSE: it raises, line 72)
\*   auto   - the payload behind automatic_captions["en"], None when absent
\*   manual - the payload behind subtitles["en"], None when absent
\*   get    - requests.get(sub_url): "ok", "not_ok" (r.ok false), "raise"
Services ==
  { [info |-> FALSE, auto |-> None, manual |-> None, get |-> "ok"],
    [info |-> TRUE, auto |-> None, manual |-> None, get |-> "ok"],
    [info |-> TRUE, auto |-> <<"WEBVTT", "", "1", "00:01 --> 00:02", "auto">>,
     manual |-> <<"WEBVTT", "manual">>, get |-> "ok"],
    [info |-> TRUE, auto |-> None, manual |-> <<"WEBVTT", "manual">>, get |-> "ok"],
    [info |-> TRUE, auto |-> <<"1", "00:01 --> 00:02">>, manual |-> None, get |-> "ok"],
    [info |-> TRUE, auto |-> <<"WEBVTT", "auto">>, manual |-> None, get |-> "not_ok"],
    [info |-> TRUE, auto |-> <<"WEBVTT", "auto">>, manual |-> None, get |-> "raise"] }

\* lines 80-84: automatic English captions are preferred to manual ones.
sub_url_of(s) ==
  IF s.auto # None THEN s.auto ELSE IF s.manual # None THEN s.manual ELSE None

\* get_youtube_transcription(url), lines 51-95, against the answers s: a
\* string, None, or RequestException when requests.get (line 87) raises.
get_youtube_transcription(url, s) ==
  IF Falsy(extract_youtube_id(url)) THEN None
  ELSE IF ~s.info THEN None
  ELSE IF sub_url_of(s) = None THEN None
  ELSE IF s.get = "raise" THEN RequestException
  ELSE IF s.get = "ok" THEN CaptionText(sub_url_of(s))
  ELSE None

----------------------------------------------------------------------------
(* Link extraction and text extraction, lines 123-164.                     *)

\* A parsed page (soup): the href of its <base> tag (None when it has none),
\* the href/src values of its a, area, link, iframe and frame elements, the
\* src values of its img elements, and its visible text.
IGNORED_SCHEMES == {<<"mailto">>, <<"javascript">>, <<"tel">>, <<"data">>, <<>>}

\* lines 142-144: the normalized link is kept unless it is None or "".
keep_normalized(normalized) ==
  IF normalized = ValueError THEN [raises |-> TRUE, links |-> {}]
  ELSE IF Falsy(normalized) THEN [raises |-> FALSE, links |-> {}]
  ELSE [raises |-> FALSE, links |-> {normalized}]

\* lines 139-144, once raw is parsed (line 139).
candidate_parsed(raw, base_for_join, parsed) ==
  IF parsed.err THEN [raises |-> TRUE, links |-> {}]
  ELSE IF parsed.scheme # <<>> /\ Lower(parsed.scheme) \in IGNORED_SCHEMES
  THEN [raises |-> FALSE, links |-> {}]
  ELSE keep_normalized(normalize_url(raw, base_for_join))

\* lines 136-144 for one candidate: the links it adds (none or one), and
\* whether urlparse or normalize_url raises ValueError.
candidate_links(raw, base_for_join) ==
  IF Falsy(raw) THEN [raises |-> FALSE, links |-> {}]
  ELSE candidate_parsed(raw, base_for_join, urlparse(raw))

\* lines 146-151 for one image: nothing is kept, but normalize_url is called.
image_raises(src, base_for_join) ==
  ~Falsy(src) /\ normalize_url(src, base_for_join) = ValueError

\* line 126: base_tag['href'] if base_tag else current_url
base_for_join_of(soup, url) == IF soup.base # None THEN soup.base ELSE url

\* lines 135-153: the links of all candidates, unless one of them or an
\* image raised.
collect_links(results, img_raised) ==
  IF img_raised \/ \E r \in results : r.raises
  THEN [raises |-> TRUE, links |-> {}]
  ELSE [raises |-> FALSE, links |-> UNION {r.links : r \in results}]

\* extract_links_from_soup(soup, current_url): the set of links, and whether
\* a candidate or an image raises instead.
extract_links_from_soup(soup, url) ==
  collect_links({candidate_links(raw, base_for_join_of(soup, url)) : raw \in soup.hrefs},
                \E src \in soup.imgs : image_raises(src, base_for_join_of(soup, url)))

\* get_visible_text_without_mutation(soup): the text of the page.
get_visible_text_without_mutation(soup) == soup.text
----------------------------------------------------------------------------
(* The inputs of a crawl.                                                  *)

\* Bounds of the model.
MaxLinks == 2
MaxCap == 2
MaxTail == 3

\* base_domain (the parameter of line 167) and base_netloc (lines 169-170).
base_domain == <<"https", ":", "/", "/", "x.com">>
base_netloc == Lower(urlparse(base_domain).netloc)

\* The start_url values tried: one that needs normalising and one whose
\* scheme normalize_url rejects.
Seeds ==
  { <<"https", ":", "/", "/", "X.com", ":", "443">>,
    <<"mailto", ":", "a">> }

\* The href/src values a fetched page may carry.
RawHrefs ==
  { <<"/", "a">>,
    <<"https", ":", "/", "/", "X.com", ":", "443", "/", "a", "/", "#", "a">>,
    <<"https", ":", "/", "/", "x.com", "/", "b">>,
    <<"https", ":", "/", "/", "y.org", "/">>,
    <<"https", ":", "/", "/", "youtube.com", "/", "watch", "?", "v=abc">>,
    <<"https", ":", "/", "/", "youtu.be", "/", "abc">>,
    <<"https", ":", "/", "/", "youtube.com", "/">>,
    <<"mailto", ":", "a">>,
    <<"ftp", ":", "/", "/", "x.com", "/", "a">>,
    <<"http", ":", "/", "/", "[">> }
\* The src values an img element may carry: a page of the site, and a value
\* urlparse rejects.
ImgSrcs ==
  { <<"/", "a">>,
    <<"http", ":", "/", "/", "[">> }
\* The <base href> values: None stands for a page without a <base> tag.
BaseHrefs == {None}
\* The visible texts.
Texts == {<<"hello">>}

\* The pages a fetch may return: at most MaxLinks URL-bearing elements.
Pages ==
  { [base |-> b, hrefs |-> h, imgs |-> i, text |-> t] :
      b \in BaseHrefs,
      h \in {H \in SUBSET RawHrefs : Cardinality(H) <= MaxLinks},
      i \in {I \in SUBSET ImgSrcs : Cardinality(I) <= MaxLinks},
      t \in Texts }
NoSoup == [base |-> None, hrefs |-> {}, imgs |-> {}, text |-> <<>>]

\* The orders in which Python may iterate the set found_links (line 207).
Orders(S) ==
  {f \in [1..Cardinality(S) -> S] : \A i, j \in 1..Cardinality(S) : f[i] = f[j] => i = j}

----------------------------------------------------------------------------
(* scrape_and_store_locally, lines 167-254.                                *)

VARIABLES
  start_url,             \* the parameter start_url
  max_pages,             \* the parameter max_pages; 0 stands for None
  internal_links,        \* line 171
  queue,                 \* line 172
  visited,               \* line 173
  scraped_pages,         \* line 174
  pages_crawled,         \* line 182
  pages_stored,          \* line 183
  pc,                    \* where control is: "loop" (line 187), "fetch"
                         \* (line 200), "done" (after the loop)
  current_url,           \* line 192
  soup,                  \* line 202: the page the fetch returned
  order,                 \* the order in which line 207 iterates found_links
  answers,               \* what the caption service answers for each video link
  youtube_transcription, \* lines 203, 218
  outcome,               \* how the last iteration ended
  raw_url,               \* an input of normalize_url
  once,                  \* normalize_url(raw_url)
  twice,                 \* normalize_url(normalize_url(raw_url))
  site,                  \* the pages of a site that does not change, by URL
  tree,                  \* a BeautifulSoup object: its elements in document order
  links_before,          \* extract_links_from_soup(tree) before the text is taken
  text_taken,            \* get_visible_text_without_mutation(tree)
  links_after            \* extract_links_from_soup(tree) after the text is taken

crawl_vars == <<start_url, max_pages, internal_links, queue, visited, scraped_pages,
                pages_crawled, pages_stored, current_url, soup, order, answers,
                youtube_transcription, outcome>>
norm_vars == <<raw_url, once, twice>>
text_vars == <<tree, links_before, text_taken, links_after>>
vars == <<crawl_vars, norm_vars, text_vars, site, pc>>

\* line 188 with > for >=
CapHit_late(cap, crawled) == cap # 0 /\ crawled > cap

\* line 188: max_pages and pages_crawled >= max_pages
CapHit(cap, crawled) == cap # 0 /\ crawled >= cap

\* line 193 without "not current_url"
ShouldSkip_visited(url, vis) == url \in vis

\* line 193: not current_url or current_url in visited
ShouldSkip(url, vis) == Falsy(url) \/ url \in vis

\* line 195 left out
MarkVisited_never(vis, url) == vis

\* line 195: visited.add(current_url)
MarkVisited(vis, url) == vis \cup {url}

\* line 209 with the comparison left out
IsSameDomain_any(link) == TRUE

\* line 209: parsed_link.netloc == base_netloc
IsSameDomain(link) == urlparse(link).netloc = base_netloc

\* line 216: "youtube.com" in netloc or "youtu.be" in netloc
IsVideoNetloc(netloc) == HasYoutubeCom(netloc) \/ HasYoutuBe(netloc)
IsVideoHost(link) == IsVideoNetloc(urlparse(link).netloc)

\* line 213 without "link not in visited"
ShouldEnqueue_unvisited(link, vis, q) == ~Contains(q, link)

\* line 213 without "link not in queue"
ShouldEnqueue_unqueued(link, vis, q) == link \notin vis

\* line 213: link not in visited and link not in queue
ShouldEnqueue(link, vis, q) == link \notin vis /\ ~Contains(q, link)

\* The video links for which line 218 reaches the caption service.
Consulted(found_links) ==
  {l \in found_links : ~IsSameDomain(l) /\ IsVideoHost(l) /\ ~Falsy(extract_youtube_id(l))}

\* line 218 for one link: the transcription or RequestException.
transcription_of(link, ans) ==
  IF link \in DOMAIN ans THEN get_youtube_transcription(link, ans[link])
  ELSE None

\* line 218: the assignment, unless the call raised.
set_transcription(st, t) ==
  IF t = RequestException THEN [st EXCEPT !.raised = TRUE] ELSE [st EXCEPT !.yt = t]

\* lines 213-214 alone: the link is enqueued without being recorded
add_internal_unrecorded(st, link, vis) ==
  [st EXCEPT !.queue = IF ShouldEnqueue(link, vis, @) THEN Append(@, link) ELSE @]

\* lines 210-214: a same-domain link is recorded and, if new, enqueued.
add_internal(st, link, vis) ==
  [st EXCEPT !.internal_links = @ \cup {link},
             !.queue = IF ShouldEnqueue(link, vis, @) THEN Append(@, link) ELSE @]

\* lines 208-219: the body of the loop for one link.
process_link(link, st, vis, ans) ==
  IF IsSameDomain(link) THEN add_internal(st, link, vis)
  ELSE IF IsVideoHost(link) THEN set_transcription(st, transcription_of(link, ans))
  ELSE st

\* lines 207-219: the loop over found_links in the order links; st holds
\* internal_links, queue, youtube_transcription and whether line 218 raised.
RECURSIVE process_links(_, _, _, _)
process_links(links, st, vis, ans) ==
  IF links = <<>> \/ st.raised THEN st
  ELSE process_links(Tail(links), process_link(links[1], st, vis, ans), vis, ans)

\* line 221
visible_text_of(yt, page) ==
  IF ~Falsy(yt) THEN yt ELSE get_visible_text_without_mutation(page)

\* lines 223-229 (scraped_at, the time of the call, is left out)
page_document(url, text) ==
  [url |-> url, text |-> text, text_length |-> Len(text), domain |-> base_domain]

Init ==
  /\ start_url \in Seeds
  /\ max_pages \in 0..MaxCap
  /\ internal_links = {}
  /\ queue = <<normalize_url(start_url, None)>>
  /\ visited = {}
  /\ scraped_pages = <<>>
  /\ pages_crawled = 0
  /\ pages_stored = 0
  /\ pc = "loop"
  /\ current_url = None
  /\ soup = NoSoup
  /\ order = <<>>
  /\ answers = <<>>
  /\ youtube_transcription = None
  /\ outcome = "none"
  /\ raw_url = None /\ once = None /\ twice = None
  /\ site = <<>>
  /\ tree = <<>> /\ links_before = {} /\ text_taken = None /\ links_after = {}

\* The locals of an iteration that the next one sets before it reads them.
ResetLocals ==
  /\ soup' = NoSoup /\ order' = <<>> /\ answers' = <<>>
  /\ youtube_transcription' = None

\* line 187: the queue is empty, the loop ends.
QueueEmpty ==
  /\ pc = "loop" /\ queue = <<>>
  /\ pc' = "done"
  /\ UNCHANGED <<crawl_vars, norm_vars, text_vars, site>>

\* lines 188-190: the cap is reached, break.
CapReached ==
  /\ pc = "loop" /\ queue # <<>> /\ CapHit(max_pages, pages_crawled)
  /\ pc' = "done"
  /\ UNCHANGED <<crawl_vars, norm_vars, text_vars, site>>

\* lines 192-194 with the head read but not popped
Skip_peek ==
  /\ pc = "loop" /\ queue # <<>> /\ ~CapHit(max_pages, pages_crawled)
  /\ ShouldSkip(Head(queue), visited)
  /\ current_url' = Head(queue)
  /\ outcome' = "skipped"
  /\ ResetLocals
  /\ UNCHANGED <<start_url, max_pages, internal_links, queue, visited, scraped_pages,
                 pages_crawled, pages_stored, norm_vars, text_vars, site, pc>>

\* lines 192-194: the head is popped and skipped.
Skip ==
  /\ pc = "loop" /\ queue # <<>> /\ ~CapHit(max_pages, pages_crawled)
  /\ ShouldSkip(Head(queue), visited)
  /\ current_url' = Head(queue)
  /\ queue' = Tail(queue)
  /\ outcome' = "skipped"
  /\ ResetLocals
  /\ UNCHANGED <<start_url, max_pages, internal_links, visited, scraped_pages,
                 pages_crawled, pages_stored, norm_vars, text_vars, site, pc>>

\* lines 192-197: the head is popped, marked visited and counted.
Dequeue ==
  /\ pc = "loop" /\ queue # <<>> /\ ~CapHit(max_pages, pages_crawled)
  /\ ~ShouldSkip(Head(queue), visited)
  /\ current_url' = Head(queue)
  /\ queue' = Tail(queue)
  /\ visited' = MarkVisited(visited, Head(queue))
  /\ pages_crawled' = pages_crawled + 1
  /\ outcome' = "fetching"
  /\ ResetLocals
  /\ pc' = "fetch"
  /\ UNCHANGED <<start_url, max_pages, internal_links, scraped_pages, pages_stored,
                 norm_vars, text_vars, site>>

\* lines 235-237 with the failed URL put back at the end of the queue
FetchFail_requeue ==
  /\ pc = "fetch"
  /\ outcome' = "fetch_error"
  /\ queue' = Append(queue, current_url)
  /\ pc' = "loop"
  /\ UNCHANGED <<start_url, max_pages, internal_links, visited, scraped_pages,
                 pages_crawled, pages_stored, current_url, soup, order, answers,
                 youtube_transcription, norm_vars, text_vars,
                 site>>

\* lines 200-201 raise requests.RequestException; lines 235-237.
FetchFail ==
  /\ pc = "fetch"
  /\ outcome' = "fetch_error"
  /\ pc' = "loop"
  /\ UNCHANGED <<start_url, max_pages, internal_links, queue, visited, scraped_pages,
                 pages_crawled, pages_stored, current_url, soup, order, answers,
                 youtube_transcription, norm_vars, text_vars,
                 site>>

\* line 202 raises; lines 238-240.
ParseFail ==
  /\ pc = "fetch"
  /\ outcome' = "process_error"
  /\ pc' = "loop"
  /\ UNCHANGED <<start_url, max_pages, internal_links, queue, visited, scraped_pages,
                 pages_crawled, pages_stored, current_url, soup, order, answers,
                 youtube_transcription, norm_vars, text_vars,
                 site>>

\* lines 221-233, or the except clause that catches what line 218 raised.
StoreOrCatch(page, st) ==
  /\ internal_links' = st.internal_links
  /\ queue' = st.queue
  /\ youtube_transcription' = st.yt
  /\ IF st.raised
     THEN /\ outcome' = "fetch_error"
          /\ UNCHANGED <<scraped_pages, pages_stored>>
     ELSE /\ outcome' = "stored"
          /\ scraped_pages' =
               Append(scraped_pages,
                      page_document(current_url, visible_text_of(st.yt, page)))
          /\ pages_stored' = pages_stored + 1

\* lines 205-233 for the links found, in one iteration order and with one
\* set of answers of the caption service.
WalkLinks(page, found) ==
  \E ord \in Orders(found.links) :
  \E ans \in [Consulted(found.links) -> Services] :
    /\ order' = ord
    /\ answers' = ans
    /\ IF found.raises
       THEN /\ outcome' = "process_error"
            /\ UNCHANGED <<internal_links, queue, youtube_transcription,
                           scraped_pages, pages_stored>>
       ELSE StoreOrCatch(page,
              process_links(ord,
                [internal_links |-> internal_links, queue |-> queue,
                 yt |-> None, raised |-> FALSE],
                visited, ans))

\* lines 200-240 once the fetch has returned the page: the links are
\* extracted and walked, and the document is stored unless something raised.
ProcessPage ==
  /\ pc = "fetch"
  /\ \E page \in Pages :
       /\ Cardinality(page.hrefs) + Cardinality(page.imgs) <= MaxLinks
       /\ soup' = page
       /\ WalkLinks(page, extract_links_from_soup(page, current_url))
  /\ pc' = "loop"
  /\ UNCHANGED <<start_url, max_pages, visited, pages_crawled, current_url, norm_vars,
                 text_vars, site>>

Next ==
  \/ QueueEmpty
  \/ CapReached
  \/ Skip
  \/ Dequeue
  \/ FetchFail
  \/ ParseFail
  \/ ProcessPage

Spec == Init /\ [][Next]_vars

\* The crawl called with max_pages=None: line 188 is then never true, so the
\* break of lines 189-190 is not a step of this loop.  The loop runs on: a
\* started iteration ends, the loop condition is tested.
NoCapInit == Init /\ max_pages = 0
NoCapNext ==
  \/ QueueEmpty
  \/ Skip
  \/ Dequeue
  \/ FetchFail
  \/ ParseFail
  \/ ProcessPage
NoCapSpec == NoCapInit /\ [][NoCapNext]_vars /\ WF_vars(NoCapNext)

----------------------------------------------------------------------------
(* normalize_url on its own: an input is normalized, and the result is     *)
(* normalized again.                                                       *)

\* The inputs: a prefix followed by at most MaxTail more tokens.
NormPrefixes ==
  { <<>>,
    <<"https", ":", "/", "/", "x.com">>,
    <<"HTTP", ":", "/", "/", "X.com", ":", "80">>,
    <<"https", ":", "/", "/", "x.com", ":", "443">>,
    <<"http", ":", "/", "/", "x.com", ":", "443">>,
    <<"https", ":">>,
    <<"/", "/", "x.com">>,
    <<"mailto", ":">>,
    <<"ftp", ":", "/", "/", "x.com">> }
NormTokens == {"/", "a", "?", "#", ";"}
NormInputs ==
  {p \o t : p \in NormPrefixes, t \in UNION {[1..n -> NormTokens] : n \in 0..MaxTail}}

NormInit ==
  /\ raw_url \in NormInputs
  /\ once = None
  /\ twice = None
  /\ pc = "raw"
  /\ start_url = None
  /\ max_pages = 0
  /\ internal_links = {}
  /\ queue = <<>>
  /\ visited = {}
  /\ scraped_pages = <<>>
  /\ pages_crawled = 0
  /\ pages_stored = 0
  /\ current_url = None
  /\ soup = NoSoup
  /\ order = <<>>
  /\ answers = <<>>
  /\ youtube_transcription = None
  /\ outcome = "none"
  /\ site = <<>>
  /\ tree = <<>> /\ links_before = {} /\ text_taken = None /\ links_after = {}

\* normalize_url(raw_url)
Normalize ==
  /\ pc = "raw"
  /\ once' = normalize_url(raw_url, None)
  /\ pc' = "once"
  /\ UNCHANGED <<crawl_vars, text_vars, site, raw_url, twice>>

\* normalize_url(normalize_url(raw_url)), when the first call returned a URL
NormalizeAgain ==
  /\ pc = "once"
  /\ once # None /\ once # ValueError
  /\ twice' = normalize_url(once, None)
  /\ pc' = "twice"
  /\ UNCHANGED <<crawl_vars, text_vars, site, raw_url, once>>

NormNext ==
  \/ Normalize
  \/ NormalizeAgain

NormSpec == NormInit /\ [][NormNext]_vars

----------------------------------------------------------------------------
(* Text extraction and link extraction on one BeautifulSoup object, lines  *)
(* 123-164.  The object is the sequence of its elements in document order; *)
(* an element has a tag, the tag of the element that contains it, the      *)
(* value of its href or src attribute (None without one) and its own text. *)

MaxElements == 3

\* line 158: the elements get_visible_text_without_mutation removes
RemovedTags == {"header", "footer", "script", "style", "nav", "noscript", "meta", "link"}
\* lines 128-132: the elements whose href or src is a link candidate
CandidateTags == {"a", "area", "link", "iframe", "frame"}

\* The elements tried.
Elements ==
  { [tag |-> "a", parent |-> "body", href |-> <<"/", "a">>, text |-> <<"hello">>],
    [tag |-> "a", parent |-> "nav", href |-> <<"/", "b">>, text |-> <<"menu">>],
    [tag |-> "link", parent |-> "head", href |-> <<"/", "c">>, text |-> <<>>],
    [tag |-> "script", parent |-> "body", href |-> None, text |-> <<"code">>],
    [tag |-> "img", parent |-> "body", href |-> <<"/", "a">>, text |-> <<>>],
    [tag |-> "p", parent |-> "footer", href |-> None, text |-> <<"foot">>] }
Trees ==
  UNION { {t \in [1..n -> Elements] : \A i, j \in 1..n : t[i] = t[j] => i = j} :
          n \in 0..MaxElements }

\* lines 158-159: element.decompose() for every element of a removed tag;
\* what such an element contains goes with it.
Kept(e) == e.tag \notin RemovedTags /\ e.parent \notin RemovedTags
decompose(t) == SelectSeq(t, Kept)

\* lines 160-164: the texts of the elements, joined.
RECURSIVE get_text(_)
get_text(t) == IF t = <<>> THEN <<>> ELSE t[1].text \o get_text(Tail(t))

\* line 157: BeautifulSoup(str(soup), 'html.parser'), a second object with
\* the same elements.
temp_of(t) == [i \in 1..Len(t) |-> t[i]]

\* The page as the crawl sees it: its candidates, its images and the text
\* lines 156-164 return for it.
soup_of(t) ==
  [base |-> None,
   hrefs |-> {t[i].href : i \in {j \in 1..Len(t) : t[j].tag \in CandidateTags}},
   imgs |-> {t[i].href : i \in {j \in 1..Len(t) : t[j].tag = "img"}},
   text |-> get_text(decompose(temp_of(t)))]

\* lines 157-159 without the copy: the elements are removed from soup itself
text_call_in_place(t) == [text |-> get_text(decompose(t)), soup |-> decompose(t)]

\* A call get_visible_text_without_mutation(soup): the text returned and
\* the object soup after the call.
text_call(t) == [text |-> get_text(decompose(temp_of(t))), soup |-> t]

TextInit ==
  /\ tree \in Trees
  /\ links_before = {} /\ text_taken = None /\ links_after = {}
  /\ pc = "tree"
  /\ site = <<>>
  /\ raw_url = None /\ once = None /\ twice = None
  /\ start_url = None
  /\ max_pages = 0
  /\ internal_links = {}
  /\ queue = <<>>
  /\ visited = {}
  /\ scraped_pages = <<>>
  /\ pages_crawled = 0
  /\ pages_stored = 0
  /\ current_url = base_domain \o <<"/">>
  /\ soup = NoSoup
  /\ order = <<>>
  /\ answers = <<>>
  /\ youtube_transcription = None
  /\ outcome = "none"

\* line 205 on the object
LinksFirst ==
  /\ pc = "tree"
  /\ links_before' = extract_links_from_soup(soup_of(tree), current_url).links
  /\ pc' = "linked"
  /\ UNCHANGED <<crawl_vars, norm_vars, site, tree, text_taken, links_after>>

\* line 221 on the object
TakeText ==
  /\ pc = "linked"
  /\ text_taken' = text_call(tree).text
  /\ tree' = text_call(tree).soup
  /\ pc' = "texted"
  /\ UNCHANGED <<crawl_vars, norm_vars, site, links_before, links_after>>

\* extract_links_from_soup once more, on the object as line 221 left it
LinksAgain ==
  /\ pc = "texted"
  /\ links_after' = extract_links_from_soup(soup_of(tree), current_url).links
  /\ pc' = "relinked"
  /\ UNCHANGED <<crawl_vars, norm_vars, site, tree, links_before, text_taken>>

TextNext ==
  \/ LinksFirst
  \/ TakeText
  \/ LinksAgain

TextSpec == TextInit /\ [][TextNext]_vars

----------------------------------------------------------------------------
(* The crawl of a site whose pages do not change while it is crawled:      *)
(* every fetch of a URL returns the page the site has for it.  The crawl   *)
(* has no cap, so line 188 is never true, and the queue never holds a URL  *)
(* that line 193 skips.                                                    *)

\* The URLs of the site, as normalize_url returns them.
SiteUrls ==
  { base_domain \o <<"/">>,
    base_domain \o <<"/", "a">>,
    base_domain \o <<"/", "b">>,
    base_domain \o <<"/", "c">>,
    base_domain \o <<"/", "d">> }

\* The pages the site may have for a URL.
SitePages ==
  { [base |-> None, hrefs |-> h, imgs |-> {}, text |-> <<"hello">>] :
      h \in { {<<"/", "a">>, <<"/", "b">>},
              {<<"/", "c">>, <<"https", ":", "/", "/", "youtu.be", "/", "abc">>},
              {<<"/", "d">>},
              {<<"/", "c">>} } }

SiteInit ==
  /\ site \in [SiteUrls -> SitePages]
  /\ start_url = base_domain
  /\ max_pages = 0
  /\ internal_links = {}
  /\ queue = <<normalize_url(start_url, None)>>
  /\ visited = {}
  /\ scraped_pages = <<>>
  /\ pages_crawled = 0
  /\ pages_stored = 0
  /\ pc = "loop"
  /\ current_url = None
  /\ soup = NoSoup
  /\ order = <<>>
  /\ answers = <<>>
  /\ youtube_transcription = None
  /\ outcome = "none"
  /\ raw_url = None /\ once = None /\ twice = None
  /\ tree = <<>> /\ links_before = {} /\ text_taken = None /\ links_after = {}

\* lines 200-240 when the fetch returns the site's page for current_url.
SitePage ==
  /\ pc = "fetch"
  /\ current_url \in DOMAIN site
  /\ soup' = site[current_url]
  /\ WalkLinks(site[current_url], extract_links_from_soup(site[current_url], current_url))
  /\ pc' = "loop"
  /\ UNCHANGED <<start_url, max_pages, visited, pages_crawled, current_url, norm_vars,
                 text_vars, site>>

SiteNext ==
  \/ QueueEmpty
  \/ Dequeue
  \/ FetchFail
  \/ SitePage

SiteSpec == SiteInit /\ [][SiteNext]_vars

----------------------------------------------------------------------------
(* What the claims speak of.                                               *)

\* The links of the page processed last, and how each video link fared.
Found == extract_links_from_soup(soup, current_url)
Processed == soup # NoSoup
VideoLinks == {l \in Found.links : ~IsSameDomain(l) /\ IsVideoHost(l)}
Transcript(l) == transcription_of(l, answers)
StoredUrls == {scraped_pages[i].url : i \in 1..Len(scraped_pages)}
LastDocument == scraped_pages[Len(scraped_pages)]
\* urlparse(url).hostname: the netloc without its port, lower-cased
HostOf(url) == Lower(Before(urlparse(url).netloc, ":"))
\* The configured base host.
BaseHost == HostOf(base_domain)

----------------------------------------------------------------------------
(* C1: no two records of scraped_pages have the same url, whatever the     *)
(* link graph and whichever fetches and pages fail.                        *)
C1_NoDuplicateDocument ==
  \A i, j \in 1..Len(scraped_pages) :
    scraped_pages[i].url = scraped_pages[j].url => i = j

\* Two pages are stored and the one stored last links to a stored page.
C1_Witness ==
  /\ Len(scraped_pages) >= 2
  /\ outcome = "stored"
  /\ \E l \in Found.links : l \in StoredUrls

(* C2: a URL that was dequeued stays in visited for ever, is never in the  *)
(* queue again, and every fetch is of a URL that was not visited before.   *)
C2_AtMostOneAttempt ==
  [][ /\ visited \subseteq visited'
      /\ \A u \in visited' : ~Contains(queue', u)
      /\ pages_crawled' # pages_crawled =>
           /\ current_url' \notin visited
           /\ visited' = visited \cup {current_url'}
           /\ pages_crawled' = pages_crawled + 1
           /\ pc' = "fetch" ]_vars

\* A stored page links to a page whose fetch or processing failed earlier.
C2_Witness ==
  /\ outcome = "stored"
  /\ \E l \in Found.links :
       l \in visited /\ l # current_url /\ l \notin StoredUrls

(* C3: with max_pages = k > 0 there are never more than k fetch attempts   *)
(* nor more than k documents, and at the cap the loop can only end, also   *)
(* when the queue is not empty.                                            *)
C3_CapRespected ==
  max_pages # 0 =>
    /\ pages_crawled <= max_pages
    /\ Len(scraped_pages) <= max_pages
    /\ pages_stored <= max_pages
    /\ (pc = "loop" /\ pages_crawled = max_pages /\ queue # <<>>) =>
         (ENABLED CapReached /\ ~ENABLED Dequeue /\ ~ENABLED Skip)

\* The crawl ended at the cap with URLs left in the queue.
C3_Witness ==
  /\ pc = "done"
  /\ max_pages # 0
  /\ pages_crawled = max_pages
  /\ queue # <<>>

(* C4: every member of internal_links has the host of base_domain; no      *)
(* external and no video link is in it.                                    *)
C4_DomainFiltering ==
  \A l \in internal_links :
    /\ HostOf(l) = BaseHost
    /\ ~IsVideoHost(l)

\* A stored page carried a same-domain link beside a video or external one.
C4_Witness ==
  /\ outcome = "stored"
  /\ \E l \in Found.links : l \in internal_links
  /\ \E l \in Found.links : HostOf(l) # BaseHost

(* C5: without a cap the loop ends, with an empty queue, whatever the      *)
(* outcome of each page.                                                   *)
C5_Terminates == (max_pages = 0) ~> (pc = "done" /\ queue = <<>>)

\* An uncapped crawl ended after a failed fetch and a page that raised.
C5_Witness ==
  /\ max_pages = 0
  /\ pc = "done"
  /\ queue = <<>>
  /\ pages_crawled >= 3
  /\ pages_stored < pages_crawled

(* C6: normalize_url is idempotent: normalizing what it returned gives the *)
(* same URL, also for paths made of slashes or ending in several slashes.  *)
C6_Idempotent == pc = "twice" => twice = once

(* C7: for an http or https input the URL normalize_url returns has a      *)
(* non-empty path.                                                         *)
C7_PathNeverEmpty ==
  (/\ pc # "raw"
   /\ urlparse(raw_url).scheme \in {<<"http">>, <<"https">>}
   /\ once # None /\ once # ValueError)
    => urlparse(once).path # <<>>

\* Why the enricher gives no transcript for a video link: no video id in the
\* URL, the metadata lookup failed, there are no captions, or the download
\* of the caption payload failed (r.ok false, or requests.get raised).
EnricherFails(l) ==
  \/ l \notin DOMAIN answers
  \/ ~answers[l].info
  \/ sub_url_of(answers[l]) = None
  \/ answers[l].get # "ok"

\* The enricher has a non-empty transcript for the video link.
YieldsTranscript(l) ==
  /\ ~EnricherFails(l)
  /\ CaptionText(sub_url_of(answers[l])) # <<>>

(* C8: when the enricher fails for the video links of a fetched page, for  *)
(* whatever reason, a document is still stored for the page and its text   *)
(* is the page's own visible text.                                         *)
C8_EnrichmentFailureFallsBack ==
  (/\ Processed
   /\ ~Found.raises
   /\ VideoLinks # {}
   /\ \A l \in VideoLinks : EnricherFails(l))
    => /\ outcome = "stored"
       /\ LastDocument.url = current_url
       /\ LastDocument.text = get_visible_text_without_mutation(soup)

(* C9: when the enricher yields a transcript for one of the video links of *)
(* a stored page, the stored text is a transcript and not the page's own   *)
(* text, whatever the other video links and the iteration order.           *)
C9_TranscriptReplacesText ==
  (/\ Processed
   /\ outcome = "stored"
   /\ \E l \in VideoLinks : YieldsTranscript(l))
    => /\ LastDocument.text # get_visible_text_without_mutation(soup)
       /\ \E l \in VideoLinks : YieldsTranscript(l) /\ LastDocument.text = Transcript(l)

\* The href cannot be normalized: normalize_url returns None or raises.
Unnormalizable(raw) ==
  \/ normalize_url(raw, base_for_join_of(soup, current_url)) = None
  \/ normalize_url(raw, base_for_join_of(soup, current_url)) = ValueError

(* C10: a link of a fetched page that cannot be normalized (disallowed     *)
(* scheme or malformed URL) is dropped alone: the page's other links are   *)
(* extracted and enqueued and the page's document is stored.  (Pages whose *)
(* images or caption downloads raise are left aside.)                      *)
C10_BadLinkDroppedAlone ==
  (/\ Processed
   /\ \E raw \in soup.hrefs : Unnormalizable(raw)
   /\ \A src \in soup.imgs : ~image_raises(src, base_for_join_of(soup, current_url))
   /\ \A raw \in soup.hrefs :
        ~Unnormalizable(raw) =>
          transcription_of(normalize_url(raw, base_for_join_of(soup, current_url)),
                           answers) # RequestException)
    => /\ outcome = "stored"
       /\ LastDocument.url = current_url
       /\ \A raw \in soup.hrefs :
            (/\ ~Unnormalizable(raw)
             /\ IsSameDomain(normalize_url(raw, base_for_join_of(soup, current_url))))
              => /\ normalize_url(raw, base_for_join_of(soup, current_url))
                      \in internal_links
                 /\ \/ normalize_url(raw, base_for_join_of(soup, current_url)) \in visited
                    \/ Contains(queue,
                                normalize_url(raw, base_for_join_of(soup, current_url)))

\* The page processed last with its img elements removed.
WithoutImages == [soup EXCEPT !.imgs = {}]

(* C11: img src values never influence link extraction: for the page       *)
(* fetched, extract_links_from_soup gives what it gives for the same page  *)
(* without its img elements, and does not raise because of an img src.     *)
C11_ImagesIgnored ==
  Processed => Found = extract_links_from_soup(WithoutImages, current_url)

\* The loop ended at the break of line 190: QueueEmpty needs an empty queue.
Truncated == pc = "done" /\ queue # <<>>

(* C12: when the page cap truncates the crawl, internal_links is a         *)
(* superset of visited: every URL dequeued and marked visited, the seed    *)
(* included, is in the returned set.                                       *)
C12_InternalSupersetOfVisited == Truncated => visited \subseteq internal_links

\* No URL occurs twice in the sequence.
NoRepeat(q) == \A i, j \in 1..Len(q) : q[i] = q[j] => i = j

(* C13: at the top of every iteration of the loop (line 187) no URL occurs *)
(* twice in the queue and no URL of the queue is in visited.               *)
C13_QueueFresh ==
  pc = "loop" => /\ NoRepeat(queue)
                 /\ \A i \in 1..Len(queue) : queue[i] \notin visited

\* A stored page linked to a URL already visited and to a URL that waits in
\* the queue; the queue holds it once.
C13_Witness ==
  /\ pc = "loop" /\ outcome = "stored" /\ Processed
  /\ queue # <<>>
  /\ \E l \in Found.links : l \in visited
  /\ \E l \in Found.links : Contains(queue, l)

\* The step in which session.get or raise_for_status (lines 200-201) raises:
\* no page was parsed.
TransportFailure == pc = "fetch" /\ outcome' = "fetch_error" /\ soup' = NoSoup

(* C14: a transport failure for the dequeued URL changes nothing but       *)
(* visited and pages_crawled: dequeuing takes the head off the queue, adds *)
(* it to visited and counts it, and the failure that follows leaves the    *)
(* documents, pages_stored, internal_links and the rest of the queue as    *)
(* they were and goes back to the top of the loop.                         *)
C14_FetchFailureFrame ==
  [][/\ (pc = "loop" /\ pc' = "fetch") =>
          /\ visited' = visited \cup {Head(queue)}
          /\ pages_crawled' = pages_crawled + 1
          /\ queue' = Tail(queue)
          /\ UNCHANGED <<scraped_pages, pages_stored, internal_links>>
     /\ TransportFailure =>
          /\ UNCHANGED <<scraped_pages, pages_stored, internal_links, queue,
                         visited, pages_crawled>>
          /\ current_url \in visited'
          /\ pc' = "loop"]_vars

\* A fetch failed while documents were stored and URLs were waiting.
C14_Witness ==
  /\ pc = "loop" /\ outcome = "fetch_error" /\ soup = NoSoup
  /\ queue # <<>>
  /\ scraped_pages # <<>>
  /\ internal_links # {}

\* The step in which the processing of a fetched page raises (it ends in one
\* of the except clauses of lines 235-240 with a page parsed).
ProcessingFailure ==
  /\ pc = "fetch"
  /\ \/ outcome' = "process_error"
     \/ outcome' = "fetch_error" /\ soup' # NoSoup

(* C15: a page whose processing raises after a successful fetch is         *)
(* recovered like a fetch failure: no document is stored for it, it stays  *)
(* in visited, and none of its links has been added to internal_links or   *)
(* to the queue.                                                           *)
C15_ProcessingFailureFrame ==
  [][ProcessingFailure =>
       /\ UNCHANGED <<scraped_pages, pages_stored, internal_links, queue>>
       /\ current_url \in visited'
       /\ pc' = "loop"]_vars

\* normalize_url(start_url) is None: the seed has a scheme other than http
\* and https.
AbsentSeeds == {s \in Seeds : normalize_url(s, None) = None}
SeedAbsent == start_url \in AbsentSeeds

(* C17: when the seed normalizes to None the crawl fetches nothing, stores *)
(* no document, returns an empty internal_links and pages_stored = 0, and  *)
(* the loop ends without an error: until it has ended a step of the loop   *)
(* is possible, and that step is not a fetch.                              *)
C17_AbsentSeedCrawlsNothing ==
  SeedAbsent =>
    /\ pc # "fetch"
    /\ visited = {} /\ pages_crawled = 0
    /\ scraped_pages = <<>> /\ pages_stored = 0
    /\ internal_links = {}
    /\ pc = "loop" => (ENABLED Skip \/ ENABLED QueueEmpty)

\* The crawl of an absent seed has ended.
C17_Witness == SeedAbsent /\ pc = "done" /\ queue = <<>> /\ outcome = "skipped"

\* The seeds with what line 172 puts into the queue for each.
NormalizedSeeds == {<<s, normalize_url(s, None)>> : s \in Seeds}
\* The URLs that were or are to be fetched, and those of the documents.
Handled == {queue[i] : i \in 1..Len(queue)} \cup visited \cup StoredUrls

(* C19: every URL in the queue, in visited or stored as the url of a       *)
(* document is the normalized seed or a member of internal_links, and so   *)
(* has the base host: no external or video URL other than the seed is      *)
(* fetched or stored.                                                      *)
C19_OnlySeedOutsideInternal ==
  \A u \in Handled :
    \/ u \in internal_links /\ urlparse(u).netloc = base_netloc
    \/ <<start_url, u>> \in NormalizedSeeds

\* Pages other than the seed were fetched and stored, after a page that
\* also carried an external link.
C19_Witness ==
  /\ \E u \in StoredUrls : <<start_url, u>> \notin NormalizedSeeds
  /\ queue # <<>>
  /\ Processed /\ outcome = "stored"
  /\ \E l \in Found.links : ~IsSameDomain(l)

(* C18: get_visible_text_without_mutation leaves the object it is given    *)
(* unchanged, so extract_links_from_soup returns the same links after the  *)
(* text was taken as before.                                               *)
C18_TextLeavesPageAlone ==
  [][/\ (pc = "linked" /\ pc' = "texted") => tree' = tree
     /\ pc' = "relinked" => links_after' = links_before']_vars

\* Links were extracted before and after the text was taken, on a page with
\* a link in its nav and a link element, which the text leaves out.
C18_Witness ==
  /\ pc = "relinked"
  /\ \E i \in 1..Len(tree) : tree[i].tag = "link"
  /\ \E i \in 1..Len(tree) : tree[i].parent = "nav"
  /\ Cardinality(links_after) >= 2
  /\ text_taken = <<>>

\* The links of each stored page of the site.
StoredLinks == [p \in StoredUrls |-> extract_links_from_soup(site[p], p).links]
\* The URLs one link further than the set S along stored pages.
Expand(S, links) == S \cup UNION {links[p] : p \in S \cap DOMAIN links}
\* The sets of URLs within k, k+1, ... links of the seed along stored pages,
\* S being the set for k.
RECURSIVE Levels(_, _, _)
Levels(S, k, links) ==
  IF k > Cardinality(SiteUrls) THEN <<>>
  ELSE <<S>> \o Levels(Expand(S, links), k + 1, links)
\* The link distance of u from the seed through stored pages; more than the
\* number of URLs when no such path leads to u.
DistanceIn(u, levels) ==
  IF \E k \in 1..Len(levels) : u \in levels[k]
  THEN MinOf({k \in 1..Len(levels) : u \in levels[k]}) - 1
  ELSE Len(levels)
DistancesIn(levels) == [u \in StoredUrls |-> DistanceIn(u, levels)]
Distances(links) == DistancesIn(Levels({normalize_url(start_url, None)}, 0, links))
\* The distances do not decrease along the stored collection, for the
\* documents a path of stored pages leads to.
NonDecreasing(distance) ==
  \A i, j \in 1..Len(scraped_pages) :
    (/\ i < j
     /\ distance[scraped_pages[i].url] <= Cardinality(SiteUrls)
     /\ distance[scraped_pages[j].url] <= Cardinality(SiteUrls))
      => distance[scraped_pages[i].url] <= distance[scraped_pages[j].url]

(* C16: documents are stored in breadth-first order: when the crawl of a   *)
(* site has ended, the link distance from the seed, through the pages that *)
(* were stored, never decreases along the stored collection.               *)
C16_BreadthFirstOrder == pc = "done" => NonDecreasing(Distances(StoredLinks))

====
